---- MODULE Spec2Model ----
(***************************************************************************)
(* The field metadata store of BaseField.ts (the decorators' reflect       *)
(* metadata) and the generic CrudRepository: its hook-carrying revision    *)
(* (create / update / remove with beforeSave, afterSave, beforeDelete,     *)
(* afterDelete) and its save/saveInternal revision, both run by two        *)
(* concurrent callers against one storage.                                 *)
(***************************************************************************)
EXTENDS Integers, Sequences, FiniteSets, TLC

\* ------------------------------------------------------------------ bounds
\* Row ids are 1..MaxId; the autoincrement sequence stops at MaxId.
MaxId == 2
\* The decorators of one run of SpecMeta execute at most MaxDecos times.
MaxDecos == 2

\* ------------------------------------------------------------- JS values
\* JavaScript's undefined as a property value (model[this.primaryKey] = undefined).
Undefined == 0

\* null, as a model: findOne's result for no row, and create's prevModel.
Null == [n \in {"null"} |-> Undefined]

\* public primaryKey: string = 'id'
primaryKey == "id"

Ids == 1..MaxId

\* The callers of the repository: two concurrent logical operations.
Calls == {"A", "B"}

\* ------------------------------------------------- field metadata store
\* Model classes: Article extends Post, Tag is unrelated to both.
Classes == {"Post", "Article", "Tag"}

\* Object.getPrototypeOf of a class's prototype, "none" for Object.prototype.
Parent == [c \in Classes |-> IF c = "Article" THEN "Post" ELSE "none"]

\* Property names the decorators are applied to.
Props == {"id", "title", "author", "tags"}

\* IBaseFieldOptions as the caller writes it: nothing set.
EmptyOptions == [defined |-> TRUE, label |-> "undefined", appType |-> "undefined",
                 decoratorName |-> "undefined"]

\* IInternalFieldOptions {}: nothing set.
EmptyInternal == [appType |-> "undefined", decoratorName |-> "undefined"]

\* Reflect.getMetadata's undefined for a missing options object.
NoOptions == [defined |-> FALSE, label |-> "undefined", appType |-> "undefined",
              decoratorName |-> "undefined"]

\* The reflect-metadata store with nothing defined. field and decorator are
\* the own metadata of (prototype, property) under STEROIDS_META_FIELD and
\* STEROIDS_META_FIELD_DECORATOR; keys is the own STEROIDS_META_KEYS of a
\* prototype, a reference to an array object; arrays holds the array objects,
\* each named by the class whose decoration allocated it.
EmptyStore ==
    [field     |-> [k \in Classes \X Props |-> NoOptions],
     decorator |-> [k \in Classes \X Props |-> "none"],
     keys      |-> [c \in Classes |-> "none"],
     arrays    |-> [c \in Classes |-> << >>]]

\* Reflect.getMetadata(STEROIDS_META_FIELD, proto, fieldName): the own
\* metadata, else the prototype chain's.
RECURSIVE GetFieldMetadata(_, _, _)
GetFieldMetadata(m, cls, fieldName) ==
    IF cls = "none" THEN NoOptions
    ELSE IF m.field[<<cls, fieldName>>].defined THEN m.field[<<cls, fieldName>>]
    ELSE GetFieldMetadata(m, Parent[cls], fieldName)

\* Reflect.getMetadata(STEROIDS_META_FIELD_DECORATOR, proto, fieldName);
\* "none" when nothing was defined, "undefined" when undefined was defined.
RECURSIVE GetDecoratorMetadata(_, _, _)
GetDecoratorMetadata(m, cls, fieldName) ==
    IF cls = "none" THEN "none"
    ELSE IF m.decorator[<<cls, fieldName>>] # "none" THEN m.decorator[<<cls, fieldName>>]
    ELSE GetDecoratorMetadata(m, Parent[cls], fieldName)

\* Reflect.getMetadata(STEROIDS_META_KEYS, proto): the array object found on
\* the prototype or up its chain, "none" when there is none.
RECURSIVE GetKeysMetadata(_, _)
GetKeysMetadata(m, cls) ==
    IF cls = "none" THEN "none"
    ELSE IF m.keys[cls] # "none" THEN m.keys[cls]
    ELSE GetKeysMetadata(m, Parent[cls])

getFieldOptions(m, targetClass, fieldName) ==
    GetFieldMetadata(m, targetClass, fieldName)

isMetaClass(m, MetaClass) ==
    GetKeysMetadata(m, MetaClass) # "none"

getMetaFields(m, MetaClass) ==
    IF GetKeysMetadata(m, MetaClass) = "none" THEN << >>
    ELSE m.arrays[GetKeysMetadata(m, MetaClass)]

\* Array.prototype.filter over a sequence of names, order kept.
RECURSIVE FilterSeq(_, _)
FilterSeq(s, keep) ==
    IF s = << >> THEN << >>
    ELSE IF Head(s) \in keep THEN <<Head(s)>> \o FilterSeq(Tail(s), keep)
    ELSE FilterSeq(Tail(s), keep)

Range(s) == {s[i] : i \in 1..Len(s)}

\* getMetaRelations reads options.appType of every listed name: a name with
\* no options object makes it throw a TypeError.
getMetaRelationsThrows(m, MetaClass) ==
    \E n \in Range(getMetaFields(m, MetaClass)) :
        ~getFieldOptions(m, MetaClass, n).defined

getMetaRelations(m, MetaClass) ==
    FilterSeq(getMetaFields(m, MetaClass),
              {n \in Props : getFieldOptions(m, MetaClass, n).appType
                               \in {"relationId", "relation"}})

\* The field decorators ./index exports, by name.
IndexExports == {"PrimaryKeyField", "StringField", "RelationField", "RelationIdField"}

\* getFieldDecorator: require('./index')[decoratorName], and the throw of
\* 'Not found Field decorator' when there is no such export.
getFieldDecoratorThrows(m, targetClass, fieldName) ==
    GetDecoratorMetadata(m, targetClass, fieldName) \notin IndexExports

\* The property decorator: both per-property entries, then the name pushed
\* on the array getMetadata returned (the chain's own array object when the
\* prototype has none of its own) and that array defined on the prototype.
ColumnMetaDecorator(m, object, propertyName, options, internalOptions) ==
    LET found == GetKeysMetadata(m, object)
        ref   == IF found = "none" THEN object ELSE found
    IN  [field     |-> [m.field EXCEPT ![<<object, propertyName>>] = options],
         decorator |-> [m.decorator EXCEPT ![<<object, propertyName>>] =
                            internalOptions.decoratorName],
         keys      |-> [m.keys EXCEPT ![object] = ref],
         arrays    |-> [m.arrays EXCEPT ![ref] = Append(@, propertyName)]]

\* BaseField(options, internalOptions): label null unless given, appType
\* internalOptions.appType || null, whatever options.appType says.
BaseField(m, object, propertyName, options, internalOptions) ==
    ColumnMetaDecorator(m, object, propertyName,
        [options EXCEPT
            !.label = IF @ = "undefined" THEN "null" ELSE @,
            !.appType = IF internalOptions.appType = "undefined"
                        THEN "null" ELSE internalOptions.appType],
        internalOptions)

\* PrimaryKeyField(options): BaseField with ONE argument, the options with
\* decoratorName and appType spread into them.
PrimaryKeyField(m, object, propertyName, options) ==
    BaseField(m, object, propertyName,
        [options EXCEPT
            !.label = IF @ = "undefined" THEN "ID" ELSE @,
            !.decoratorName = "PrimaryKeyField",
            !.appType = "primaryKey"],
        EmptyInternal)

\* ------------------------------------------------------------ data mapper
\* A model or an entity is a function from its own property names to values.

\* DataMapperHelper.applyChangesToModel(targetModel, source): every
\* enumerable property of source overwrites the same-named one of target.
applyChangesToModel(targetModel, source) ==
    [f \in DOMAIN targetModel \cup DOMAIN source |->
        IF f \in DOMAIN source THEN source[f] ELSE targetModel[f]]

\* DataMapperHelper.modelToEntity(connection, model): a new object with every
\* own property of the model (the values here are scalars and relation ids,
\* which it passes through).
modelToEntity(model) == [f \in DOMAIN model |-> model[f]]

\* DataMapperHelper.anyToModel(obj, ModelClass): a new ModelClass instance
\* with every enumerable property of obj.
anyToModel(obj) == [f \in DOMAIN obj |-> obj[f]]

\* ---------------------------------------------------------------- storage
VARIABLES
    meta,       \* the reflect-metadata store
    applied,    \* the field decorators executed so far, in order
    query,      \* the SearchQuery update() built last
    storage,    \* the committed rows, Null where there is none
    seq,        \* the primary key's autoincrement sequence
    call,       \* each caller's call: its arguments, locals and position
    txn         \* each caller's transaction: open, and its uncommitted writes

vars == <<meta, applied, query, storage, seq, call, txn>>

\* The class the repository was init()ed with, and the class of the models
\* its callers pass.
modelClass == "Post"

\* What a statement of caller c reads: the committed rows under its own
\* transaction's writes.
View(c) ==
    [i \in Ids |-> IF txn[c].open /\ i \in DOMAIN txn[c].writes
                   THEN txn[c].writes[i] ELSE storage[i]]

\* A row another open transaction has written stays locked until it ends.
Locked(c, i) ==
    \E d \in Calls \ {c} : txn[d].open /\ i \in DOMAIN txn[d].writes

\* SearchQuery.prepare + getOne: the row whose primary key is the condition's,
\* with its columns and the relations the query names, no others.
getOne(view, searchQuery) ==
    LET row == view[searchQuery.condition]
        rel == Range(getMetaRelations(meta, modelClass))
    IN  IF row = Null THEN Null
        ELSE [f \in {g \in DOMAIN row : g \notin rel \/ g \in Range(searchQuery.relations)}
                |-> row[f]]

\* findOne: row ? this.entityToModel(row) : null
findOne(view, searchQuery) ==
    IF getOne(view, searchQuery) = Null THEN Null
    ELSE anyToModel(getOne(view, searchQuery))

\* EntityManager.save(entity): an entity with a primary key value updates that
\* row, or inserts it when there is none; one without takes the next value of
\* the sequence. Properties whose value is undefined are not written.
HasId(entity) ==
    primaryKey \in DOMAIN entity /\ entity[primaryKey] # Undefined

SaveTarget(entity) ==
    IF HasId(entity) THEN entity[primaryKey] ELSE seq + 1

SavedRow(view, entity) ==
    LET target == SaveTarget(entity)
        old    == IF view[target] = Null THEN [f \in {primaryKey} |-> target]
                  ELSE view[target]
        set    == {f \in DOMAIN entity : entity[f] # Undefined}
    IN  [f \in DOMAIN old \cup set |->
            IF f = primaryKey THEN target
            ELSE IF f \in set THEN entity[f] ELSE old[f]]

\* save() hands the entity back with the generated key on it.
SavedEntity(entity) ==
    [f \in DOMAIN entity \cup {primaryKey} |->
        IF f = primaryKey THEN SaveTarget(entity) ELSE entity[f]]

\* The insert of a generated key that a row already holds violates the
\* primary key constraint.
SaveConflicts(view, entity) ==
    ~HasId(entity) /\ view[SaveTarget(entity)] # Null

\* ------------------------------------------------------------------ calls
\* A caller with no call yet. model is the caller's own object, next the
\* object the call saves (create saves the caller's object itself), prev the
\* previous state update located, handed the entity given to manager.save
\* and entity the one it gave back. events, before and after record the hooks
\* and mapper steps the call ran and what the hooks were handed; snapshot and
\* located record the committed rows and the row of id when the call was
\* made, rowBefore the row its write replaced, lstamp and wstamp how many
\* writes had been committed at the call and with its own write, invoked
\* how many times the caller's transactionHandler called the callback.
IdleCall ==
    [op |-> "none", pc |-> "idle", id |-> Undefined, tx |-> FALSE, cb |-> "none",
     arg |-> Null, model |-> Null, relations |-> << >>,
     prev |-> Null, next |-> Null, handed |-> Null, entity |-> Null,
     events |-> << >>, before |-> << >>, after |-> << >>,
     error |-> "none", raised |-> "none", swallowed |-> FALSE,
     result |-> "pending", returned |-> Null,
     invoked |-> 0, persists |-> 0, target |-> Undefined, wrote |-> {},
     located |-> Null, rowBefore |-> Null, lstamp |-> 0, wstamp |-> 0,
     snapshot |-> << >>]

NoTxn == [open |-> FALSE, writes |-> << >>]

\* The models callers pass: a scalar, a relation, both, and ones that carry
\* the primary key property (a value, or undefined).
Models ==
    { [f \in {"title"} |-> 2],
      [f \in {"tags"} |-> 2],
      [f \in {"id", "tags"} |-> IF f = "id" THEN 2 ELSE 3],
      [f \in {"id", "title"} |-> IF f = "id" THEN Undefined ELSE 3] }

\* The callers are named in the order of their calls: B calls once A has.
Callable(c) ==
    /\ call[c].pc = "idle"
    /\ c = "B" => call["A"].pc # "idle"

Max(S) == CHOOSE x \in S : \A y \in S : y <= x

\* The number of writes committed so far.
Stamp == Max({call[d].wstamp : d \in Calls})

\* A running call whose save will draw a key from the sequence.
Generates(rec) ==
    /\ rec.pc \notin {"idle", "done", "failed"}
    /\ rec.op \in {"create", "update"}
    /\ rec.persists = 0
    /\ ~HasId(rec.next)

\* The sequence has a value left for one more such call.
SequenceLeft ==
    seq + Cardinality({d \in Calls : Generates(call[d])}) < MaxId

\* Raise, were the repository to catch the error and throw one of its own.
RaiseTranslated(rec, err) ==
    [rec EXCEPT !.error = "RepositoryError",
                !.raised = IF @ = "none" THEN err ELSE @,
                !.pc = IF rec.tx THEN "txHandlerCatch" ELSE "failed",
                !.result = IF rec.tx THEN @ ELSE "RepositoryError"]

\* An error thrown in the call's callback: inside a transaction it rejects
\* the callback the txHandler awaits, without one it rejects the call.
Raise(rec, err) ==
    [rec EXCEPT !.error = err,
                !.raised = IF @ = "none" THEN err ELSE @,
                !.pc = IF rec.tx THEN "txHandlerCatch" ELSE "failed",
                !.result = IF rec.tx THEN @ ELSE err]

\* The call's write reaches the committed rows.
Effect(rec, i) ==
    [rec EXCEPT !.wrote = @ \cup {i},
                !.rowBefore = storage[i],
                !.wstamp = Stamp + 1]

\* After the callback: back in the txHandler, or at the method's return.
AfterCallback(rec) == IF rec.tx THEN "txHandlerEnd" ELSE "return"

\* searchQuery.condition = {[this.primaryKey]: id};
\* searchQuery.relations = getMetaRelations(model.constructor).filter(key => _has(model, key))
UpdateSearchQuery(m, id, model, cls) ==
    [condition |-> id,
     relations |-> FilterSeq(getMetaRelations(m, cls), DOMAIN model)]

\* SavedObject, were update to overlay the patch on prevModel itself.
SavedObjectNoClone(op) ==
    IF op = "create" THEN {"next", "model"} ELSE {"next", "prev"}

\* The names the object a call saves goes by: create saves the caller's own
\* model; update saves nextModel = _cloneDeep(prevModel), a new object that
\* is neither prevModel nor the caller's model.
SavedObject(op) ==
    IF op = "create" THEN {"next", "model"} ELSE {"next"}

\* NextModel with the overlay the wrong way round: the previous state wins.
NextModelPreviousWins(prevModel, model) == applyChangesToModel(model, prevModel)

\* NextModel without the previous state: the patch alone.
NextModelPatchOnly(prevModel, model) == model

\* let nextModel = _cloneDeep(prevModel); applyChangesToModel(nextModel, model)
NextModel(prevModel, model) == applyChangesToModel(prevModel, model)

\* create, were it to save before it runs beforeSave.
createSavesFirst(c, model, tx) ==
    /\ Callable(c)
    /\ HasId(model) \/ SequenceLeft
    /\ call' = [call EXCEPT ![c] =
            [IdleCall EXCEPT !.op = "create", !.tx = tx, !.cb = "save",
                             !.arg = model, !.model = model, !.next = model,
                             !.located = Null, !.snapshot = storage, !.lstamp = Stamp,
                             !.pc = IF tx THEN "transaction" ELSE "save"]]
    /\ UNCHANGED <<meta, applied, query, storage, seq, txn>>

\* ------------------------------------------ CrudRepository with the hooks
\* create(model, transactionHandler?)
create(c, model, tx) ==
    /\ Callable(c)
    /\ HasId(model) \/ SequenceLeft
    /\ call' = [call EXCEPT ![c] =
            [IdleCall EXCEPT !.op = "create", !.tx = tx, !.cb = "beforeSave",
                             !.arg = model, !.model = model, !.next = model,
                             !.located = Null, !.snapshot = storage, !.lstamp = Stamp,
                             !.pc = IF tx THEN "transaction" ELSE "beforeSave"]]
    /\ UNCHANGED <<meta, applied, query, storage, seq, txn>>

\* update(id, model, transactionHandler?) up to the saveHandler: the query,
\* the locate, the not-found check, the clone and the overlay.
update(c, id, model, tx) ==
    /\ Callable(c)
    /\ (primaryKey \in DOMAIN model /\ model[primaryKey] = Undefined) => SequenceLeft
    /\ LET q    == UpdateSearchQuery(meta, id, model, modelClass)
           prev == findOne(storage, q)
           rec  == [IdleCall EXCEPT !.op = "update", !.id = id, !.tx = tx,
                                    !.cb = "beforeSave", !.arg = model,
                                    !.model = model, !.relations = q.relations,
                                    !.located = storage[id],
                                    !.snapshot = storage, !.lstamp = Stamp]
       IN  call' = [call EXCEPT ![c] =
               IF getMetaRelationsThrows(meta, modelClass)
               THEN [rec EXCEPT !.pc = "failed", !.error = "TypeError",
                                !.raised = "TypeError", !.result = "TypeError"]
               ELSE IF prev = Null
               THEN [rec EXCEPT !.pc = "failed", !.error = "NotFound",
                                !.raised = "NotFound", !.result = "NotFound"]
               ELSE [rec EXCEPT !.prev = IF "prev" \in SavedObject("update")
                                          THEN NextModel(prev, model) ELSE prev,
                                !.model = IF "model" \in SavedObject("update")
                                          THEN NextModel(prev, model) ELSE model,
                                !.next = NextModel(prev, model),
                                !.pc = IF tx THEN "transaction" ELSE "beforeSave"]]
    /\ UNCHANGED <<meta, applied, query, storage, seq, txn>>

\* remove(id, transactionHandler?): with a handler the callback runs the
\* hooks around manager.remove; without one, manager.remove alone.
remove(c, id, tx) ==
    /\ Callable(c)
    /\ call' = [call EXCEPT ![c] =
            [IdleCall EXCEPT !.op = "remove", !.id = id, !.tx = tx,
                             !.cb = "beforeDelete", !.located = storage[id],
                             !.snapshot = storage, !.lstamp = Stamp,
                             !.pc = IF tx THEN "transaction" ELSE "managerRemove"]]
    /\ UNCHANGED <<meta, applied, query, storage, seq, txn>>

\* await this.beforeSave(prevModel, nextModel): the overridable hook, which
\* may throw.
beforeSave(c) ==
    /\ call[c].pc = "beforeSave"
    /\ \E throws \in BOOLEAN :
        LET rec == [call[c] EXCEPT
                        !.events = Append(@, "beforeSave"),
                        !.before = Append(@, [prev |-> call[c].prev,
                                              next |-> call[c].next])]
        IN  call' = [call EXCEPT ![c] =
                IF throws THEN Raise(rec, "HookError")
                ELSE [rec EXCEPT !.pc = "save"]]
    /\ UNCHANGED <<meta, applied, query, storage, seq, txn>>

\* manager.save(this.modelToEntity(nextModel)): the write, to the
\* transaction when there is one, else to the committed rows; the
\* persistence layer may throw instead. after is where the call goes on.
ManagerSave(c, after) ==
    /\ LET entity == modelToEntity(call[c].next)
           target == SaveTarget(entity)
           tried  == [call[c] EXCEPT !.persists = @ + 1,
                                     !.handed = entity,
                                     !.events = Append(@, "save")]
       IN  /\ target \in Ids
           /\ ~Locked(c, target)
           /\ \E throws \in BOOLEAN :
                IF throws \/ SaveConflicts(View(c), entity)
                THEN /\ call' = [call EXCEPT ![c] = Raise(tried, "PersistError")]
                     /\ seq' = IF HasId(entity) THEN seq ELSE seq + 1
                     /\ UNCHANGED <<storage, txn>>
                ELSE /\ seq' = IF HasId(entity) THEN seq ELSE seq + 1
                     /\ IF call[c].tx
                        THEN /\ txn' = [txn EXCEPT ![c].writes =
                                    [i \in DOMAIN @ \cup {target} |->
                                        IF i = target THEN SavedRow(View(c), entity)
                                        ELSE @[i]]]
                             /\ call' = [call EXCEPT ![c] =
                                    [tried EXCEPT !.entity = SavedEntity(entity),
                                                  !.target = target,
                                                  !.pc = after]]
                             /\ UNCHANGED storage
                        ELSE /\ storage' = [storage EXCEPT ![target] =
                                                SavedRow(View(c), entity)]
                             /\ call' = [call EXCEPT ![c] =
                                    [Effect(tried, target) EXCEPT
                                                  !.entity = SavedEntity(entity),
                                                  !.target = target,
                                                  !.pc = after]]
                             /\ UNCHANGED txn
    /\ UNCHANGED <<meta, applied, query>>

\* const entity = await manager.save(this.modelToEntity(nextModel)), in the
\* saveHandler.
save(c) ==
    /\ call[c].pc = "save"
    /\ ManagerSave(c, "applyChanges")

\* DataMapperHelper.applyChangesToModel(nextModel, entity): the generated
\* values onto the saved object, which for create is the caller's own.
applyChanges(c) ==
    /\ call[c].pc = "applyChanges"
    /\ LET merged == applyChangesToModel(call[c].next, call[c].entity)
       IN  call' = [call EXCEPT ![c] =
                [@ EXCEPT !.next = merged,
                          !.model = IF "model" \in SavedObject(call[c].op)
                                    THEN merged ELSE @,
                          !.prev = IF "prev" \in SavedObject(call[c].op)
                                   THEN merged ELSE @,
                          !.events = Append(@, "applyChanges"),
                          !.pc = "afterSave"]]
    /\ UNCHANGED <<meta, applied, query, storage, seq, txn>>

\* await this.afterSave(prevModel, nextModel); return nextModel
afterSave(c) ==
    /\ call[c].pc = "afterSave"
    /\ \E throws \in BOOLEAN :
        LET rec == [call[c] EXCEPT
                        !.events = Append(@, "afterSave"),
                        !.after = Append(@, [prev |-> call[c].prev,
                                             next |-> call[c].next])]
        IN  call' = [call EXCEPT ![c] =
                IF throws THEN Raise(rec, "HookError")
                ELSE [rec EXCEPT !.pc = AfterCallback(rec)]]
    /\ UNCHANGED <<meta, applied, query, storage, seq, txn>>

\* await this.beforeDelete(id), in the transactional callback only.
beforeDelete(c) ==
    /\ call[c].pc = "beforeDelete"
    /\ \E throws \in BOOLEAN :
        LET rec == [call[c] EXCEPT !.events = Append(@, "beforeDelete")]
        IN  call' = [call EXCEPT ![c] =
                IF throws THEN Raise(rec, "HookError")
                ELSE [rec EXCEPT !.pc = "managerRemove"]]
    /\ UNCHANGED <<meta, applied, query, storage, seq, txn>>

\* manager.remove: the row goes, from the transaction's view or from the
\* committed rows; the persistence layer may throw instead.
ManagerRemove(c, after) ==
    /\ LET target == call[c].id
           tried  == [call[c] EXCEPT !.persists = @ + 1,
                                     !.events = Append(@, "remove")]
       IN  /\ ~Locked(c, target)
           /\ \E throws \in BOOLEAN :
                IF throws
                THEN /\ call' = [call EXCEPT ![c] = Raise(tried, "PersistError")]
                     /\ UNCHANGED <<storage, txn>>
                ELSE IF call[c].tx
                THEN /\ txn' = [txn EXCEPT ![c].writes =
                            [i \in DOMAIN @ \cup {target} |->
                                IF i = target THEN Null ELSE @[i]]]
                     /\ call' = [call EXCEPT ![c] =
                            [tried EXCEPT !.target = target, !.pc = after]]
                     /\ UNCHANGED storage
                ELSE /\ storage' = [storage EXCEPT ![target] = Null]
                     /\ call' = [call EXCEPT ![c] =
                            [Effect(tried, target) EXCEPT !.target = target,
                                                          !.pc = after]]
                     /\ UNCHANGED txn
    /\ UNCHANGED <<meta, applied, query, seq>>

\* await manager.remove(id) between the hooks of the transactional callback;
\* await this.dbRepository.manager.remove(id) alone without a handler.
managerRemove(c) ==
    /\ call[c].pc = "managerRemove"
    /\ ManagerRemove(c, IF call[c].tx THEN "afterDelete" ELSE "return")

\* await this.afterDelete(id)
afterDelete(c) ==
    /\ call[c].pc = "afterDelete"
    /\ \E throws \in BOOLEAN :
        LET rec == [call[c] EXCEPT !.events = Append(@, "afterDelete")]
        IN  call' = [call EXCEPT ![c] =
                IF throws THEN Raise(rec, "HookError")
                ELSE [rec EXCEPT !.pc = "txHandlerEnd"]]
    /\ UNCHANGED <<meta, applied, query, storage, seq, txn>>

\* ----------------------------------------------------- the transaction
\* transaction, were the repository to run the callback itself instead of
\* handing it to the caller's transactionHandler.
transactionRunsCallback(c) ==
    /\ call[c].pc = "transaction"
    /\ txn' = [txn EXCEPT ![c] = [open |-> TRUE, writes |-> << >>]]
    /\ call' = [call EXCEPT ![c].pc = call[c].cb]
    /\ UNCHANGED <<meta, applied, query, storage, seq>>

\* this.dbRepository.manager.transaction(async (manager) => ...): a
\* transaction opens and its function calls the caller's transactionHandler.
transaction(c) ==
    /\ call[c].pc = "transaction"
    /\ txn' = [txn EXCEPT ![c] = [open |-> TRUE, writes |-> << >>]]
    /\ call' = [call EXCEPT ![c].pc = "transactionHandler"]
    /\ UNCHANGED <<meta, applied, query, storage, seq>>

\* await transactionHandler(callback): the caller's handler, which calls the
\* callback it was given, or returns without calling it.
transactionHandler(c) ==
    /\ call[c].pc = "transactionHandler"
    /\ \E invokes \in BOOLEAN :
        call' = [call EXCEPT ![c] =
                    IF invokes
                    THEN [@ EXCEPT !.invoked = @ + 1, !.pc = call[c].cb]
                    ELSE [@ EXCEPT !.pc = "txHandlerEnd"]]
    /\ UNCHANGED <<meta, applied, query, storage, seq, txn>>

\* The callback rejected: the caller's handler lets the error through, or
\* catches it and goes on.
txHandlerCatch(c) ==
    /\ call[c].pc = "txHandlerCatch"
    /\ \E swallows \in BOOLEAN :
        call' = [call EXCEPT ![c] =
                    IF swallows
                    THEN [@ EXCEPT !.swallowed = TRUE, !.error = "none",
                                   !.pc = "txHandlerEnd"]
                    ELSE [@ EXCEPT !.pc = "rollback"]]
    /\ UNCHANGED <<meta, applied, query, storage, seq, txn>>

\* The handler is done with the callback: it returns, or throws an error of
\* its own.
txHandlerEnd(c) ==
    /\ call[c].pc = "txHandlerEnd"
    /\ \E throws \in BOOLEAN :
        call' = [call EXCEPT ![c] =
                    IF throws
                    THEN [@ EXCEPT !.error = "WrapperError",
                                   !.raised = IF @ = "none" THEN "WrapperError" ELSE @,
                                   !.pc = "rollback"]
                    ELSE [@ EXCEPT !.pc = "commit"]]
    /\ UNCHANGED <<meta, applied, query, storage, seq, txn>>

\* The transaction's function resolved: its writes are committed.
commit(c) ==
    /\ call[c].pc = "commit"
    /\ storage' = [i \in Ids |-> View(c)[i]]
    /\ txn' = [txn EXCEPT ![c] = NoTxn]
    /\ call' = [call EXCEPT ![c] =
            IF call[c].target \in DOMAIN txn[c].writes
            THEN [Effect(call[c], call[c].target) EXCEPT !.pc = "return"]
            ELSE [@ EXCEPT !.pc = "return"]]
    /\ UNCHANGED <<meta, applied, query, seq>>

\* rollback, were the transaction's writes to stay when its function rejects.
rollbackKeepsWrites(c) ==
    /\ call[c].pc = "rollback"
    /\ storage' = [i \in Ids |-> View(c)[i]]
    /\ txn' = [txn EXCEPT ![c] = NoTxn]
    /\ call' = [call EXCEPT ![c] =
            [@ EXCEPT !.pc = "failed", !.result = call[c].error]]
    /\ UNCHANGED <<meta, applied, query, seq>>

\* The transaction's function rejected: its writes are dropped and the
\* error goes on to the caller.
rollback(c) ==
    /\ call[c].pc = "rollback"
    /\ txn' = [txn EXCEPT ![c] = NoTxn]
    /\ call' = [call EXCEPT ![c] =
            [@ EXCEPT !.pc = "failed", !.result = call[c].error]]
    /\ UNCHANGED <<meta, applied, query, storage, seq>>

\* return model / return nextModel / the end of remove
return(c) ==
    /\ call[c].pc = "return"
    /\ call' = [call EXCEPT ![c] =
            [@ EXCEPT !.pc = "done", !.result = "ok",
                      !.returned = IF call[c].op = "remove" THEN Null
                                   ELSE call[c].next]]
    /\ UNCHANGED <<meta, applied, query, storage, seq, txn>>

\* -------------------------- CrudRepository.ts: save and saveInternal
\* create(model, transactionHandler?): model[this.primaryKey] = undefined;
\* return this.save(model, transactionHandler)
saveCreate(c, model, tx) ==
    /\ Callable(c)
    /\ SequenceLeft
    /\ LET cleared == [f \in DOMAIN model \cup {primaryKey} |->
                          IF f = primaryKey THEN Undefined ELSE model[f]]
       IN  call' = [call EXCEPT ![c] =
                [IdleCall EXCEPT !.op = "create", !.tx = tx, !.cb = "saveInternal",
                                 !.arg = model, !.model = cleared, !.next = cleared,
                                 !.located = Null, !.snapshot = storage, !.lstamp = Stamp,
                                 !.pc = IF tx THEN "transaction" ELSE "saveInternal"]]
    /\ UNCHANGED <<meta, applied, query, storage, seq, txn>>

\* update(id, model, transactionHandler?): model[this.primaryKey] = id;
\* return this.save(model, transactionHandler)
saveUpdate(c, id, model, tx) ==
    /\ Callable(c)
    /\ LET keyed == [f \in DOMAIN model \cup {primaryKey} |->
                        IF f = primaryKey THEN id ELSE model[f]]
       IN  call' = [call EXCEPT ![c] =
                [IdleCall EXCEPT !.op = "update", !.id = id, !.tx = tx,
                                 !.cb = "saveInternal",
                                 !.arg = model, !.model = keyed, !.next = keyed,
                                 !.located = storage[id], !.snapshot = storage, !.lstamp = Stamp,
                                 !.pc = IF tx THEN "transaction" ELSE "saveInternal"]]
    /\ UNCHANGED <<meta, applied, query, storage, seq, txn>>

\* remove(id, transactionHandler?): removeInternal, in the callback or direct.
saveRemove(c, id, tx) ==
    /\ Callable(c)
    /\ call' = [call EXCEPT ![c] =
            [IdleCall EXCEPT !.op = "remove", !.id = id, !.tx = tx,
                             !.cb = "removeInternal",
                             !.located = storage[id], !.snapshot = storage, !.lstamp = Stamp,
                             !.pc = IF tx THEN "transaction" ELSE "removeInternal"]]
    /\ UNCHANGED <<meta, applied, query, storage, seq, txn>>

\* saveInternal: const entity = await manager.save(this.modelToEntity(nextModel))
saveInternal(c) ==
    /\ call[c].pc = "saveInternal"
    /\ ManagerSave(c, "saveInternalApply")

\* saveInternal: DataMapperHelper.applyChangesToModel(nextModel, entity), on
\* the caller's own object.
saveInternalApply(c) ==
    /\ call[c].pc = "saveInternalApply"
    /\ LET merged == applyChangesToModel(call[c].next, call[c].entity)
       IN  call' = [call EXCEPT ![c] =
                [@ EXCEPT !.next = merged, !.model = merged,
                          !.events = Append(@, "applyChanges"),
                          !.pc = AfterCallback(call[c])]]
    /\ UNCHANGED <<meta, applied, query, storage, seq, txn>>

\* removeInternal: await manager.remove(this.dbRepository.create({id}))
removeInternal(c) ==
    /\ call[c].pc = "removeInternal"
    /\ ManagerRemove(c, AfterCallback(call[c]))

\* ------------------------------------------------------- specification
\* The store after the module that declares Post has loaded: id by
\* PrimaryKeyField, title a string column, tags a relation.
PostStore ==
    BaseField(
        BaseField(
            PrimaryKeyField(EmptyStore, "Post", "id", EmptyOptions),
            "Post", "title", EmptyOptions,
            [appType |-> "string", decoratorName |-> "StringField"]),
        "Post", "tags", EmptyOptions,
        [appType |-> "relation", decoratorName |-> "RelationField"])

NoQuery == [cls |-> "none", model |-> Null, at |-> 0, threw |-> FALSE, relations |-> << >>]

InitRepository ==
    /\ storage = [i \in Ids |->
                    IF i = 1 THEN [f \in {"id", "title", "tags"} |-> 1] ELSE Null]
    /\ seq = 1
    /\ call = [c \in Calls |-> IdleCall]
    /\ txn = [c \in Calls |-> NoTxn]
    /\ query = NoQuery

\* The decorators PostStore is the result of.
PostApplied ==
    << [cls |-> "Post", prop |-> "id", appType |-> "primaryKey",
        decoratorName |-> "PrimaryKeyField"],
       [cls |-> "Post", prop |-> "title", appType |-> "string",
        decoratorName |-> "StringField"],
       [cls |-> "Post", prop |-> "tags", appType |-> "relation",
        decoratorName |-> "RelationField"] >>

Init ==
    /\ meta = PostStore
    /\ applied = PostApplied
    /\ InitRepository

Transactions ==
    \E c \in Calls :
        \/ transaction(c)
        \/ transactionHandler(c)
        \/ txHandlerCatch(c)
        \/ txHandlerEnd(c)
        \/ commit(c)
        \/ rollback(c)
        \/ return(c)

Next ==
    \/ \E c \in Calls, model \in Models, tx \in BOOLEAN : create(c, model, tx)
    \/ \E c \in Calls, id \in Ids, model \in Models, tx \in BOOLEAN :
            update(c, id, model, tx)
    \/ \E c \in Calls, id \in Ids, tx \in BOOLEAN : remove(c, id, tx)
    \/ \E c \in Calls : beforeSave(c)
    \/ \E c \in Calls : save(c)
    \/ \E c \in Calls : applyChanges(c)
    \/ \E c \in Calls : afterSave(c)
    \/ \E c \in Calls : beforeDelete(c)
    \/ \E c \in Calls : managerRemove(c)
    \/ \E c \in Calls : afterDelete(c)
    \/ Transactions

Spec == Init /\ [][Next]_vars

\* The same repository over a storage that holds rows 1 and 2, the sequence
\* at 2.
InitRows ==
    /\ meta = PostStore
    /\ applied = PostApplied
    /\ storage = [i \in Ids |->
                    IF i <= 2 THEN [f \in {"id", "title", "tags"} |-> i] ELSE Null]
    /\ seq = 2
    /\ call = [c \in Calls |-> IdleCall]
    /\ txn = [c \in Calls |-> NoTxn]
    /\ query = NoQuery

SpecRows == InitRows /\ [][Next]_vars

\* CrudRepository.ts: create, update and remove through save and
\* saveInternal, removeInternal.
NextSave ==
    \/ \E c \in Calls, model \in Models, tx \in BOOLEAN : saveCreate(c, model, tx)
    \/ \E c \in Calls, id \in Ids, model \in Models, tx \in BOOLEAN :
            saveUpdate(c, id, model, tx)
    \/ \E c \in Calls, id \in Ids, tx \in BOOLEAN : saveRemove(c, id, tx)
    \/ \E c \in Calls : saveInternal(c)
    \/ \E c \in Calls : saveInternalApply(c)
    \/ \E c \in Calls : removeInternal(c)
    \/ Transactions

SpecSave == Init /\ [][NextSave]_vars

\* ------------------------------------------- the decorators at work
\* What the field decorators of ./index hand to BaseField as
\* internalOptions; the last is BaseField(options) called with options alone.
Internals ==
    { [appType |-> "string", decoratorName |-> "StringField"],
      [appType |-> "relation", decoratorName |-> "RelationField"],
      [appType |-> "relationId", decoratorName |-> "RelationIdField"],
      EmptyInternal }

\* The properties BaseField-built decorators are put on.
FieldProps == {"author", "tags"}

\* The models update() is handed.
QueryModels ==
    { [f \in {"title", "tags"} |-> 2],
      [f \in {"author"} |-> 2],
      [f \in {"author", "tags"} |-> 2] }

RECURSIVE Ancestors(_)
Ancestors(cls) ==
    IF Parent[cls] = "none" THEN {} ELSE {Parent[cls]} \cup Ancestors(Parent[cls])

\* Decorators run while a class body is evaluated: one class at a time, a
\* class after the class it extends.
Decoratable(cls) ==
    /\ Len(applied) < MaxDecos
    /\ IF applied = << >> THEN TRUE
       ELSE IF applied[Len(applied)].cls = cls THEN TRUE
       ELSE \A i \in 1..Len(applied) :
                /\ applied[i].cls # cls
                /\ cls \notin Ancestors(applied[i].cls)

\* @SomeField() on a property: BaseField(options, internalOptions) applied.
DecorateBaseField(cls, prop, internalOptions) ==
    /\ Decoratable(cls)
    /\ meta' = BaseField(meta, cls, prop, EmptyOptions, internalOptions)
    /\ applied' = Append(applied,
            [cls |-> cls, prop |-> prop, appType |-> internalOptions.appType,
             decoratorName |-> internalOptions.decoratorName])
    /\ UNCHANGED <<query, storage, seq, call, txn>>

\* @PrimaryKeyField() on the primary key property.
DecoratePrimaryKeyField(cls) ==
    /\ Decoratable(cls)
    /\ meta' = PrimaryKeyField(meta, cls, primaryKey, EmptyOptions)
    /\ applied' = Append(applied,
            [cls |-> cls, prop |-> primaryKey, appType |-> "primaryKey",
             decoratorName |-> "PrimaryKeyField"])
    /\ UNCHANGED <<query, storage, seq, call, txn>>

\* The first statements of update(id, model): the SearchQuery and its
\* relations for a model of class cls; getMetaRelations may throw.
BuildSearchQuery(cls, model) ==
    /\ query' = [cls |-> cls, model |-> model, at |-> Len(applied),
                 threw |-> getMetaRelationsThrows(meta, cls),
                 relations |-> IF getMetaRelationsThrows(meta, cls) THEN << >>
                               ELSE UpdateSearchQuery(meta, 1, model, cls).relations]
    /\ UNCHANGED <<meta, applied, storage, seq, call, txn>>

InitMeta ==
    /\ meta = EmptyStore
    /\ applied = << >>
    /\ InitRepository

NextMeta ==
    \/ \E cls \in Classes, prop \in FieldProps, io \in Internals :
            DecorateBaseField(cls, prop, io)
    \/ \E cls \in Classes : DecoratePrimaryKeyField(cls)
    \/ \E cls \in Classes, model \in QueryModels : BuildSearchQuery(cls, model)

SpecMeta == InitMeta /\ [][NextMeta]_vars

\* ---------------------------------------------------------------- claims
Finished(c) == call[c].pc \in {"done", "failed"}

Ran(c, event) == event \in Range(call[c].events)

\* C1: update(id, patch) for an id that storage does not hold fails with
\* NotFound, runs neither beforeSave nor afterSave and writes no row, with
\* or without a transactionHandler.
C1_UpdateOfMissingIdFails ==
    \A c \in Calls :
        (call[c].op = "update" /\ call[c].located = Null /\ Finished(c)) =>
            /\ call[c].pc = "failed"
            /\ call[c].result = "NotFound"
            /\ ~Ran(c, "beforeSave") /\ ~Ran(c, "afterSave")
            /\ call[c].persists = 0
            /\ call[c].wrote = {}

\* C2: with a transactionHandler, update's locate and its write are in one
\* transaction: the committed row its write replaces is the row it located,
\* no other writer's committed change lies between the two.
C2_TransactionalUpdateIsAtomic ==
    \A c \in Calls :
        (call[c].op = "update" /\ call[c].tx /\ call[c].target = call[c].id
            /\ call[c].id \in call[c].wrote) =>
            call[c].rowBefore = call[c].located

\* Two updates of one id without a transactionHandler, both returned, both
\* having located the row before either wrote; b wrote last.
Racing(a, b) ==
    /\ a # b
    /\ call[a].op = "update" /\ call[b].op = "update"
    /\ ~call[a].tx /\ ~call[b].tx
    /\ call[a].id = call[b].id
    /\ call[a].pc = "done" /\ call[b].pc = "done"
    /\ call[a].located = call[b].located
    /\ call[b].lstamp < call[a].wstamp
    /\ call[a].wstamp < call[b].wstamp

\* C3 as stated, for patches that do not carry the primary key: after such a
\* race the stored row is the previous state overlaid with the last
\* writer's patch alone.
C3_RowIsPreviousUnderLastPatch ==
    \A a, b \in Calls :
        (Racing(a, b) /\ primaryKey \notin DOMAIN call[a].arg
                      /\ primaryKey \notin DOMAIN call[b].arg) =>
            storage[call[b].id] = applyChangesToModel(call[b].located, call[b].arg)

\* C3, amended: after such a race the row the last writer saved holds that
\* writer's next state, the previous state as it located it (the columns and
\* the relations its own patch names) overlaid with its patch; what the
\* other caller changed in those fields is lost.
C3_RowIsLastWritersNextState ==
    \A a, b \in Calls :
        Racing(a, b) =>
            LET row  == storage[call[b].target]
                want == applyChangesToModel(call[b].prev, call[b].arg)
            IN  /\ call[a].result = "ok" /\ call[b].result = "ok"
                /\ \A f \in DOMAIN want \ {primaryKey} :
                        want[f] # Undefined => (f \in DOMAIN row /\ row[f] = want[f])
                /\ call[b].target = call[b].id =>
                        \A f \in DOMAIN call[b].prev \ DOMAIN call[b].arg :
                            row[f] = call[b].located[f]

\* A lost update: both calls returned success and a value the first writer
\* wrote is no longer in the row.
C3_Witness ==
    \E a, b \in Calls :
        /\ Racing(a, b)
        /\ call[b].target = call[b].id /\ call[a].target = call[a].id
        /\ \E f \in DOMAIN call[a].arg :
                storage[call[a].id][f] # call[a].arg[f]

\* C4: a create or update with a transactionHandler in whose callback
\* beforeSave, the save or afterSave threw, and which failed with it, has
\* written nothing: its transaction is closed, none of its writes was
\* committed, and with no other write committed meanwhile the rows are
\* those of the moment it was called.
C4_FailedTransactionWritesNothing ==
    \A c \in Calls :
        (call[c].op \in {"create", "update"} /\ call[c].tx
            /\ call[c].pc = "failed"
            /\ call[c].raised \in {"HookError", "PersistError"}) =>
            /\ ~txn[c].open
            /\ call[c].wrote = {}
            /\ (Stamp = call[c].lstamp => storage = call[c].snapshot)

\* A transactional call that had saved when afterSave threw, and failed.
C4_Witness ==
    \E c \in Calls :
        /\ call[c].op \in {"create", "update"} /\ call[c].tx
        /\ call[c].pc = "failed" /\ call[c].raised = "HookError"
        /\ Ran(c, "afterSave")
        /\ call[c].target # Undefined
        /\ storage = call[c].snapshot

\* C5: a remove that removes the row runs beforeDelete before the removal
\* and afterDelete after it, with a transactionHandler and without one.
C5_RemoveRunsHooksAroundRemoval ==
    \A c \in Calls :
        (call[c].op = "remove" /\ call[c].target # Undefined) =>
            /\ Head(call[c].events) = "beforeDelete"
            /\ call[c].pc = "done" =>
                    call[c].events = <<"beforeDelete", "remove", "afterDelete">>

IsPrefix(s, t) == Len(s) <= Len(t) /\ \A i \in 1..Len(s) : s[i] = t[i]

\* C6: create and update run beforeSave, the save, the merge of the
\* generated values and afterSave in that order; the hooks get null as the
\* previous state from create and the located one from update; afterSave
\* runs only after a save that succeeded and sees the saved object with the
\* generated values on it; when beforeSave fails nothing is saved.
C6_SaveStepsInOrder ==
    \A c \in Calls :
        call[c].op \in {"create", "update"} =>
            /\ IsPrefix(call[c].events,
                        <<"beforeSave", "save", "applyChanges", "afterSave">>)
            /\ \A h \in Range(call[c].before) \cup Range(call[c].after) :
                    IF call[c].op = "create" THEN h.prev = Null
                    ELSE /\ h.prev # Null
                         /\ \A f \in DOMAIN h.prev : h.prev[f] = call[c].located[f]
            /\ call[c].after # << >> =>
                    /\ call[c].target # Undefined
                    /\ call[c].after[1].next[primaryKey] = call[c].target
                    /\ call[c].after[1].next =
                            applyChangesToModel(call[c].before[1].next, call[c].entity)
            /\ (call[c].pc = "failed" /\ call[c].events = <<"beforeSave">>) =>
                    (call[c].persists = 0 /\ call[c].wrote = {})

\* A create that returned with a generated key: all four steps ran, afterSave
\* saw the key, the hooks saw null as the previous state.
C6_Witness ==
    \E c \in Calls :
        /\ call[c].op = "create" /\ call[c].pc = "done"
        /\ ~HasId(call[c].arg)
        /\ call[c].events = <<"beforeSave", "save", "applyChanges", "afterSave">>
        /\ call[c].before[1].prev = Null
        /\ HasId(call[c].after[1].next)

\* C7: create clears the primary key of the model it is given: the entity it
\* hands to the persistence layer has no primary key value, it replaces no
\* existing row, and the stored row's key is the generated one.
C7_CreateClearsPrimaryKey ==
    \A c \in Calls :
        (call[c].op = "create" /\ call[c].handed # Null) =>
            /\ ~HasId(call[c].handed)
            /\ call[c].wrote # {} => call[c].rowBefore = Null

\* The names decorated on cls or a class it extends, in the order of their
\* first decoration, among the first n decorators executed.
RECURSIVE DeclaredFrom(_, _, _)
DeclaredFrom(cls, i, n) ==
    IF i > n THEN << >>
    ELSE (IF /\ applied[i].cls \in {cls} \cup Ancestors(cls)
             /\ ~\E j \in 1..(i - 1) :
                    /\ applied[j].cls \in {cls} \cup Ancestors(cls)
                    /\ applied[j].prop = applied[i].prop
          THEN <<applied[i].prop>> ELSE << >>)
         \o DeclaredFrom(cls, i + 1, n)

\* The appType the last decorator of prop on cls declared, or else on the
\* class it extends, among the first n decorators executed.
RECURSIVE DeclaredType(_, _, _)
DeclaredType(cls, prop, n) ==
    IF cls = "none" THEN "undefined"
    ELSE LET on == {i \in 1..n : applied[i].cls = cls /\ applied[i].prop = prop}
         IN  IF on # {} THEN applied[Max(on)].appType
             ELSE DeclaredType(Parent[cls], prop, n)

\* C8: the relations of the SearchQuery update builds are the declared
\* relation fields (appType relation or relationId) of the model's class
\* that are own properties of the model, in declaration order, no others.
C8_RelationsAreDeclaredAndPresent ==
    query.cls # "none" =>
        /\ ~query.threw
        /\ query.relations =
              FilterSeq(DeclaredFrom(query.cls, 1, query.at),
                        {p \in DOMAIN query.model :
                            DeclaredType(query.cls, p, query.at)
                                \in {"relation", "relationId"}})

\* C9: the next state update hands to beforeSave and to the save has the
\* patch's value for every property of the patch and the previous state's
\* for every other one, and no property besides.
C9_NextStateIsPreviousUnderPatch ==
    \A c \in Calls :
        (call[c].op = "update" /\ call[c].before # << >>) =>
            LET next == call[c].before[1].next
            IN  /\ DOMAIN next = DOMAIN call[c].prev \cup DOMAIN call[c].arg
                /\ \A f \in DOMAIN call[c].arg : next[f] = call[c].arg[f]
                /\ \A f \in DOMAIN call[c].prev \ DOMAIN call[c].arg :
                        next[f] = call[c].prev[f]
                /\ call[c].before[1].prev = call[c].prev
                /\ call[c].handed # Null => call[c].handed = next

\* An update that saved: its patch left a property of the previous state
\* alone and changed another.
C9_Witness ==
    \E c \in Calls :
        /\ call[c].op = "update" /\ call[c].handed # Null
        /\ DOMAIN call[c].prev \ DOMAIN call[c].arg # {}
        /\ \E f \in DOMAIN call[c].arg \cap DOMAIN call[c].prev :
                call[c].arg[f] # call[c].prev[f]

\* C10: an error of the persistence layer or of the transaction wrapper
\* reaches the caller as it is: the call fails with that error and returns
\* no model, unless the caller's own handler caught it; no call saves or
\* removes more than once.
C10_ErrorsReachTheCaller ==
    \A c \in Calls :
        /\ call[c].persists <= 1
        /\ call[c].pc = "failed" =>
                (call[c].result = call[c].error /\ call[c].returned = Null)
        /\ (Finished(c) /\ call[c].raised = "PersistError" /\ ~call[c].swallowed) =>
                (call[c].pc = "failed" /\ call[c].result = "PersistError")
        /\ (Finished(c) /\ call[c].error = "WrapperError") =>
                (call[c].pc = "failed" /\ call[c].result = "WrapperError")
        /\ call[c].pc = "done" => call[c].error = "none"

\* A transactional update whose save threw: the error went through the
\* handler and the transaction to the caller.
C10_Witness ==
    \E c \in Calls :
        /\ call[c].op = "update" /\ call[c].tx /\ call[c].pc = "failed"
        /\ call[c].raised = "PersistError" /\ call[c].result = "PersistError"
        /\ call[c].persists = 1

\* The decorators executed on cls itself.
DecoratedOn(cls) == {i \in 1..Len(applied) : applied[i].cls = cls}

\* C11: every name getMetaFields lists for a class has a descriptor that
\* getFieldOptions returns for that class, so getMetaRelations does not
\* throw, whatever decorators ran on whatever classes.
C11_ListedFieldsHaveDescriptors ==
    \A cls \in Classes :
        /\ \A n \in Range(getMetaFields(meta, cls)) :
                getFieldOptions(meta, cls, n).defined
        /\ ~getMetaRelationsThrows(meta, cls)

\* C12: decorating a property of a class again leaves what one application
\* of the last descriptor leaves: getFieldOptions returns the last
\* descriptor and getMetaFields lists the name once.
C12_DefineIsIdempotent ==
    \A cls \in Classes : \A prop \in Props :
        (\E i \in DecoratedOn(cls) : applied[i].prop = prop) =>
            /\ getFieldOptions(meta, cls, prop).defined
            /\ Cardinality({k \in 1..Len(getMetaFields(meta, cls)) :
                                getMetaFields(meta, cls)[k] = prop}) = 1

\* C13: isMetaClass is true of exactly the classes a field decorator ran
\* on, and getMetaFields of any other class is empty, whatever ran on the
\* classes it extends.
C13_MetaClassIffDecorated ==
    \A cls \in Classes :
        /\ isMetaClass(meta, cls) <=> DecoratedOn(cls) # {}
        /\ DecoratedOn(cls) = {} => getMetaFields(meta, cls) = << >>

\* C18: what the last decorator of a property declared, its appType and its
\* own name, is what the store gives back, and getFieldDecorator finds the
\* decorator; so for PrimaryKeyField: 'primaryKey' and 'PrimaryKeyField'.
C18_DeclaredTypeAndNameAreStored ==
    \A cls \in Classes : \A prop \in Props :
        LET on == {i \in DecoratedOn(cls) : applied[i].prop = prop}
        IN  (on # {} /\ applied[Max(on)].decoratorName # "undefined") =>
                /\ getFieldOptions(meta, cls, prop).appType = applied[Max(on)].appType
                /\ GetDecoratorMetadata(meta, cls, prop) = applied[Max(on)].decoratorName
                /\ ~getFieldDecoratorThrows(meta, cls, prop)

\* The step is a field decorator executing on cls.
Decorates(cls) ==
    /\ Len(applied') = Len(applied) + 1
    /\ applied'[Len(applied')].cls = cls

\* C19: a field decorator on a class changes getMetaFields of that class
\* and of the classes that extend it only, and there by appending: the
\* list of every other class is the same after as before.
C19_DecoratorChangesOwnListOnly ==
    [][\A cls \in Classes : Decorates(cls) =>
            \A other \in Classes :
                /\ IsPrefix(getMetaFields(meta, other), getMetaFields(meta', other))
                /\ (other # cls /\ cls \notin Ancestors(other)) =>
                        getMetaFields(meta', other) = getMetaFields(meta, other)]_vars

\* C14: an update that saved wrote the row whose primary key is its id and
\* no other, whatever its patch carries as primary key: the row it saved to
\* is row id, the rows it changed are at most that one, and the row was
\* there before (none was inserted).
C14_UpdateWritesOnlyItsRow ==
    \A c \in Calls :
        (call[c].op = "update" /\ call[c].target # Undefined) =>
            /\ call[c].target = call[c].id
            /\ call[c].wrote \subseteq {call[c].id}
            /\ call[c].wrote # {} => call[c].rowBefore # Null

\* C15: in update the previous state the hooks are handed is the state
\* located before the write, after the overlay and after the merge of the
\* generated values; the caller's patch is as the caller passed it, and what
\* update returns is the next state, not the patch.
C15_PreviousStateAndPatchUntouched ==
    \A c \in Calls :
        (call[c].op = "update" /\ call[c].located # Null) =>
            LET found == findOne(call[c].snapshot,
                                 [condition |-> call[c].id,
                                  relations |-> call[c].relations])
            IN  /\ call[c].prev = found
                /\ \A h \in Range(call[c].before) \cup Range(call[c].after) :
                        h.prev = found
                /\ call[c].model = call[c].arg
                /\ call[c].pc = "done" => call[c].returned = call[c].next

\* An update that returned after both hooks: its next state differs from
\* the located one and from the patch.
C15_Witness ==
    \E c \in Calls :
        /\ call[c].op = "update" /\ call[c].pc = "done"
        /\ call[c].after # << >>
        /\ call[c].after[1].next # call[c].after[1].prev
        /\ call[c].returned # call[c].arg
        /\ call[c].model = call[c].arg

RowsAfterUpdate(rows, id, patch) ==
    LET prev   == findOne(rows, UpdateSearchQuery(meta, id, patch, modelClass))
        entity == modelToEntity(NextModel(prev, patch))
    IN  IF prev = Null THEN rows
        ELSE [rows EXCEPT ![entity[primaryKey]] = SavedRow(rows, entity)]

\* Two updates of different ids that both saved and returned.
BothUpdated(a, b) ==
    /\ call[a].op = "update" /\ call[b].op = "update"
    /\ call[a].id # call[b].id
    /\ call[a].pc = "done" /\ call[b].pc = "done"
    /\ call[a].target # Undefined /\ call[b].target # Undefined
    /\ HasId(call[a].next) /\ HasId(call[b].next)
    /\ (primaryKey \in DOMAIN call[a].arg) => call[a].arg[primaryKey] # Undefined
    /\ (primaryKey \in DOMAIN call[b].arg) => call[b].arg[primaryKey] # Undefined

\* C16: updates of different ids through the one repository do not
\* interfere: however their steps interleave, the rows at the end are the
\* rows after the one update followed by the other.
C16_UpdatesOfDifferentIdsAreSerial ==
    BothUpdated("A", "B") =>
        LET rows == call["A"].snapshot
        IN  storage \in
              { RowsAfterUpdate(RowsAfterUpdate(rows, call["A"].id, call["A"].arg),
                                call["B"].id, call["B"].arg),
                RowsAfterUpdate(RowsAfterUpdate(rows, call["B"].id, call["B"].arg),
                                call["A"].id, call["A"].arg) }

====
